---- MODULE Spec2Model ----
(***************************************************************************)
(* A model of bustard/orm.py: the declarative field/model mapping, the     *)
(* metadata registry (create_all / drop_all), the Session CRUD operations, *)
(* the QuerySet and the Field comparison builders.                         *)
(*                                                                         *)
(* Values are strings.  None stands for Python's None (SQL NULL); it is    *)
(* distinct from the four-character text "None" that default_value gives   *)
(* a text field without a default.  SQL text is kept structured: a         *)
(* statement is a record of its verb, table, column list and predicate     *)
(* column, a fragment is a sequence of tokens, "%s" is the placeholder.    *)
(***************************************************************************)
EXTENDS Integers, Sequences, FiniteSets, TLC

None == "<None>"

\* ------------------------------------------------------------------ bounds
\* Rows the database sequence may hand out (caps Session.insert).
MaxRows == 2
\* Model declarations executed in one run of the registry specification.
MaxDecls == 3

\* ------------------------------------------------------------- sequences
RECURSIVE SeqToSet(_)
SeqToSet(s) == IF s = <<>> THEN {} ELSE {Head(s)} \cup SeqToSet(Tail(s))

\* Position of the first element of s satisfying Test, 0 when there is none.
FirstIndex(s, Test(_)) ==
    IF \E i \in 1..Len(s) : Test(s[i])
    THEN CHOOSE i \in 1..Len(s) : Test(s[i]) /\ \A j \in 1..(i - 1) : ~Test(s[j])
    ELSE 0

\* OrderedDict.__setitem__ on a sequence of [key, value]: a new key is
\* appended, a known key keeps its place and takes the new value.
OrderedDict_set(d, key, value) ==
    LET i == FirstIndex(d, LAMBDA e : e.key = key)
    IN  IF i = 0 THEN Append(d, [key |-> key, value |-> value])
        ELSE [d EXCEPT ![i] = [key |-> key, value |-> value]]

Keys(od) == [i \in 1..Len(od) |-> od[i].key]
Values(od) == [i \in 1..Len(od) |-> od[i].value]

\* ------------------------------------------------------------------ Field
\* Python's True and False where the code tests for them by identity.
PyTrue == "<True>"
PyFalse == "<False>"

\* The keyword defaults of Field.__init__.  foreign_key holds <<>> for None
\* and <<fk>> for a ForeignKey object fk.
FieldDefaults ==
    [name |-> None, max_length |-> None, default |-> None,
     server_default |-> None, unique |-> FALSE, nullable |-> TRUE,
     index |-> FALSE, primary_key |-> FALSE, foreign_key |-> <<>>]

\* Field.__init__ for the subclass with this data_type; kwargs is a record
\* of the keyword arguments given.  A boolean server_default is upper-cased.
Field(data_type, kwargs) ==
    LET given == kwargs @@ FieldDefaults
    IN  [given EXCEPT !.server_default =
                          IF @ = PyTrue THEN "TRUE"
                          ELSE IF @ = PyFalse THEN "FALSE" ELSE @]
            @@ [is_field |-> TRUE, data_type |-> data_type]

\* ForeignKey.__init__: column.split('.') of 'table_name.column_name'.
ForeignKey(table_name, column_name, onupdate, ondelete) ==
    [table_name |-> table_name, column_name |-> column_name,
     onupdate |-> onupdate, ondelete |-> ondelete]

\* A class attribute that is not a Field (__tablename__, a method, ...).
Plain(value) == [is_field |-> FALSE, value |-> value]

Attr(attr, value) == [attr |-> attr, value |-> value]

\* A field whose foreign_key is a ForeignKey object (truthy), not None.
HasForeignKey(field) == field.foreign_key # <<>>

\* isinstance(field, TextField): TextField and its subclass CharField.
IsTextField(field) == field.data_type \in {"text", "varchar"}

\* Field.default_value (defaults are literals here, never callables).
default_value(field) ==
    IF field.default = None /\ IsTextField(field) THEN "None" ELSE field.default

\* ------------------------------------------------ model declaration
\* _get_table_name: attr_dict.get('__tablename__').
_get_table_name(attr_dict) ==
    LET i == FirstIndex(attr_dict, LAMBDA e : e.attr = "__tablename__")
    IN  IF i = 0 THEN None ELSE attr_dict[i].value.value

\* _auto_column_name: every Field gets _name, and name when none was given.
_auto_column_name(attr_dict) ==
    [i \in 1..Len(attr_dict) |->
        LET e == attr_dict[i] IN
        IF e.value.is_field
        THEN Attr(e.attr,
                  [e.value EXCEPT !.name = IF @ = None THEN e.attr ELSE @]
                      @@ [_name |-> e.attr])
        ELSE e]

\* _collect_fields: the Fields in declaration order, attached to the model.
_collect_fields(attr_dict, table_name) ==
    LET only == SelectSeq(attr_dict, LAMBDA e : e.value.is_field)
    IN  [i \in 1..Len(only) |->
            only[i].value @@ [table_name |-> table_name,
                              sql_column |-> <<table_name, only[i].value.name>>]]

\* Index.__init__.
Index(name, table_name, column_name, unique) ==
    [name |-> name, table_name |-> table_name,
     column_name |-> column_name, unique |-> unique]

\* 'index_{}_{}'.format(table_name, column_name)
IndexName(table_name, column_name) == <<"index", table_name, column_name>>

\* _collect_indexes: the Index objects appended to MetaData.indexes.
_collect_indexes(table_name, attr_dict) ==
    LET picked == SelectSeq(attr_dict, LAMBDA e :
                      e.value.is_field
                      /\ ~(e.value.unique \/ e.value.primary_key
                           \/ HasForeignKey(e.value))
                      /\ e.value.index)
    IN  [i \in 1..Len(picked) |->
            Index(IndexName(table_name, picked[i].value.name), table_name,
                  picked[i].value.name, picked[i].value.unique)]

\* The class object ModelMetaClass.__init__ leaves behind: pk_name is set
\* only when a field is flagged primary key (the first one wins).
ModelClass(attr_dict) ==
    LET table_name == _get_table_name(attr_dict)
        named      == _auto_column_name(attr_dict)
        fields     == _collect_fields(named, table_name)
        k          == FirstIndex(fields, LAMBDA f : f.primary_key)
    IN  [table_name |-> table_name, fields |-> fields,
         pk_name |-> IF k = 0 THEN None ELSE fields[k].name]

\* bool(value) of a string or None: None and '' are false.
Truthy(value) == value # None /\ value # ""

\* Field.to_sql: the column definition, clause by clause in the fixed order.
Field_to_sql(field) ==
    <<field.name, field.data_type>>
    \o (IF field.max_length # None THEN <<"(", field.max_length, ")">> ELSE <<>>)
    \o (IF Truthy(field.server_default)
        THEN <<"DEFAULT", field.server_default>> ELSE <<>>)
    \o (IF ~field.nullable THEN <<"NOT NULL">> ELSE <<>>)
    \o (IF field.unique THEN <<"UNIQUE">> ELSE <<>>)
    \o (IF field.primary_key THEN <<"PRIMARY KEY">> ELSE <<>>)
    \o (IF HasForeignKey(field)
        THEN LET fk == field.foreign_key[1] IN
             <<"REFERENCES", fk.table_name, fk.column_name>>
             \o (IF Truthy(fk.onupdate) THEN <<"ON UPDATE", fk.onupdate>> ELSE <<>>)
             \o (IF Truthy(fk.ondelete) THEN <<"ON DELETE", fk.ondelete>> ELSE <<>>)
        ELSE <<>>)

\* Model.table_sql: CREATE TABLE with one column definition per field.
table_sql(cls) ==
    [op |-> "CREATE TABLE", table |-> cls.table_name,
     columns |-> [i \in 1..Len(cls.fields) |-> Field_to_sql(cls.fields[i])]]

\* Index.to_sql.
Index_to_sql(index) ==
    [op |-> IF index.unique THEN "CREATE UNIQUE INDEX" ELSE "CREATE INDEX",
     name |-> index.name, table |-> index.table_name,
     column |-> index.column_name]

\* ------------------------------------------------------------ declarations
\* The model classes declared in the runs checked here.
UserDecl ==
    << Attr("__tablename__", Plain("users")),
       Attr("id", Field("serial", [primary_key |-> TRUE])),
       Attr("name", Field("text", [index |-> TRUE])) >>

\* The primary key's column name is given and differs from its attribute.
PostDecl ==
    << Attr("__tablename__", Plain("posts")),
       Attr("id", Field("serial", [name |-> "post_id", primary_key |-> TRUE])),
       Attr("title", Field("varchar", [max_length |-> "20", default |-> "x",
                                         nullable |-> FALSE, index |-> TRUE])),
       Attr("body", Field("text", <<>>)) >>

\* No field is flagged primary key.
TagDecl ==
    << Attr("__tablename__", Plain("tags")),
       Attr("name", Field("text", [unique |-> TRUE, index |-> TRUE])),
       Attr("note", Field("text", [name |-> "remark", index |-> TRUE])) >>

\* The primary key's column name is the attribute name of another field.
LinkDecl ==
    << Attr("__tablename__", Plain("links")),
       Attr("pk", Field("serial", [name |-> "ref", primary_key |-> TRUE])),
       Attr("ref", Field("integer",
            [name |-> "target", index |-> TRUE,
             foreign_key |-> <<ForeignKey("users", "id", None, "CASCADE")>>])) >>

\* A second model declared with the table name of UserDecl.
UserDecl2 ==
    << Attr("__tablename__", Plain("users")),
       Attr("id", Field("serial", [primary_key |-> TRUE])),
       Attr("name", Field("text", [index |-> TRUE])),
       Attr("email", Field("text", [index |-> TRUE, server_default |-> ""])),
       Attr("active", Field("boolean", [server_default |-> PyTrue])) >>

\* An abstract base: no __tablename__, so it is never registered.
AbstractDecl ==
    << Attr("id", Field("serial", [primary_key |-> TRUE])),
       Attr("created", Field("date", [index |-> TRUE])) >>

Decls == {UserDecl, PostDecl, TagDecl, LinkDecl, UserDecl2, AbstractDecl}

\* ------------------------------------------------------------------ state
VARIABLES
    tables,     \* MetaData.tables: the OrderedDict as a sequence of [key, value]
    indexes,    \* MetaData.indexes: the list of Index objects
    ndecl,      \* class statements executed so far
    calls,      \* driver calls made by the last create_all / drop_all
    model,      \* table name of the class of the instance the Session works on
    inst,       \* the instance's __dict__
    sess,       \* the Session: bind, connection state, cursor result
    db,         \* the table's rows as the Session's transaction sees them
    committed,  \* the table's rows as committed
    nextId,     \* next value of the table's serial sequence
    sent,       \* statements the last operation handed to the driver
    out,        \* what the last operation returned or yielded
    expr,       \* result of the last Field comparison builder
    last,       \* the operation performed last
    err         \* how it ended: "ok" or the exception it raised

meta_vars == <<tables, indexes, ndecl, calls>>
sess_vars == <<model, inst, sess, db, committed, nextId, sent, out>>
vars == <<tables, indexes, ndecl, calls, model, inst, sess, db, committed,
          nextId, sent, out, expr, last, err>>

\* ------------------------------------------------------- metadata registry
\* ModelMetaClass.__init__: the registry after the class statement.
ModelMetaClass_init(attr_dict, reg) ==
    LET table_name == _get_table_name(attr_dict)
    IN  IF Truthy(table_name)
        THEN [tables  |-> OrderedDict_set(reg.tables, table_name,
                                          ModelClass(attr_dict)),
              indexes |-> reg.indexes
                          \o _collect_indexes(table_name,
                                              _auto_column_name(attr_dict))]
        ELSE reg

\* MetaData.index_sqls: the statements joined into one batch ('' when none).
index_sqls(idx) == [i \in 1..Len(idx) |-> Index_to_sql(idx[i])]

Call(name) == [call |-> name]
Execute(sql) == [call |-> "execute", sql |-> sql]

\* create_all committing as soon as the tables are created, before the
\* index batch.
create_all_commit_early(tbls, idx) ==
    <<Call("connect"), Call("cursor")>>
    \o [i \in 1..Len(tbls) |-> Execute(table_sql(tbls[i].value))]
    \o <<Call("commit")>>
    \o (IF index_sqls(idx) # <<>>
        THEN <<Execute([op |-> "BATCH", statements |-> index_sqls(idx)])>>
        ELSE <<>>)
    \o <<Call("cursor.close"), Call("connection.close")>>

\* MetaData.create_all: the driver calls of a run in which nothing raises.
create_all(tbls, idx) ==
    <<Call("connect"), Call("cursor")>>
    \o [i \in 1..Len(tbls) |-> Execute(table_sql(tbls[i].value))]
    \o (IF index_sqls(idx) # <<>>
        THEN <<Execute([op |-> "BATCH", statements |-> index_sqls(idx)])>>
        ELSE <<>>)
    \o <<Call("commit"), Call("cursor.close"), Call("connection.close")>>

\* MetaData.drop_all: the driver calls of a run in which nothing raises.
drop_all(tbls) ==
    <<Call("connect"), Call("cursor")>>
    \o [i \in 1..Len(tbls) |->
            Execute([op |-> "DROP TABLE IF EXISTS", table |-> tbls[i].key])]
    \o <<Call("commit"), Call("cursor.close"), Call("connection.close")>>

\* The calls that can raise a driver error: none is guarded, so any of
\* them, from bind.connect() to connection.close() (0: none raises).
CanRaise(full, i) == i \in 0..Len(full)

\* Neither method catches anything: the run stops at the call that raises.
RunUntil(full, fail) == IF fail = 0 THEN full ELSE SubSeq(full, 1, fail)

\* The calls of a run cs ending with e that returned: all of them, or all
\* but the last, which raised.
Returned(cs, e) == IF e = "ok" THEN cs ELSE SubSeq(cs, 1, Len(cs) - 1)

\* Whether a run left its connection open: bind.connect() returned one and
\* no connection.close() returned.
ConnectionOpen(cs, e) ==
    LET done == Returned(cs, e) IN
    /\ \E i \in 1..Len(done) : done[i].call = "connect"
    /\ ~\E i \in 1..Len(done) : done[i].call = "connection.close"

\* The variables a specification does not use keep these values.
MetaIdle == tables = <<>> /\ indexes = <<>> /\ ndecl = 0 /\ calls = <<>>
SessIdle ==
    /\ model = None /\ inst = <<>> /\ sess = <<>> /\ db = <<>>
    /\ committed = <<>> /\ nextId = 1 /\ sent = <<>> /\ out = <<>>
ExprIdle == expr = <<>>

MetaInit ==
    /\ SessIdle /\ ExprIdle
    /\ tables = <<>>
    /\ indexes = <<>>
    /\ ndecl = 0
    /\ calls = <<>>
    /\ last = "init"
    /\ err = "ok"

\* A class statement: class X(Model) with the attributes of attr_dict.
Declare ==
    \E attr_dict \in Decls :
        /\ ndecl < MaxDecls
        /\ LET reg == ModelMetaClass_init(attr_dict,
                          [tables |-> tables, indexes |-> indexes])
           IN  /\ tables' = reg.tables
               /\ indexes' = reg.indexes
        /\ ndecl' = ndecl + 1
        /\ calls' = <<>>
        /\ last' = "declare"
        /\ err' = "ok"
        /\ UNCHANGED <<sess_vars, expr>>

\* MetaData.create_all(bind); fail is the call that raises, 0 for none.
CreateAll ==
    LET full == create_all(tables, indexes) IN
    \E fail \in 0..Len(full) :
        /\ CanRaise(full, fail)
        /\ calls' = RunUntil(full, fail)
        /\ last' = "create_all"
        /\ err' = IF fail = 0 THEN "ok" ELSE "DriverError"
        /\ UNCHANGED <<tables, indexes, ndecl, sess_vars, expr>>

\* MetaData.drop_all(bind).
DropAll ==
    LET full == drop_all(tables) IN
    \E fail \in 0..Len(full) :
        /\ CanRaise(full, fail)
        /\ calls' = RunUntil(full, fail)
        /\ last' = "drop_all"
        /\ err' = IF fail = 0 THEN "ok" ELSE "DriverError"
        /\ UNCHANGED <<tables, indexes, ndecl, sess_vars, expr>>

MetaNext == Declare \/ CreateAll \/ DropAll

SpecMeta == MetaInit /\ [][MetaNext]_vars

\* ---------------------------------------------------------- model instance
\* The classes a Session works on, keyed by table name.
SessionDecls == {UserDecl, PostDecl, TagDecl, LinkDecl}

\* Position in cls.fields of the field Model.__init__ binds to self.pk_field
\* (the first one flagged primary key), 0 when the attribute is never set.
pk_field(cls) == FirstIndex(cls.fields, LAMBDA f : f.primary_key)

\* Model.default_dict.
default_dict(cls) ==
    [a \in {cls.fields[i]._name : i \in 1..Len(cls.fields)} |->
        default_value(cls.fields[FirstIndex(cls.fields, LAMBDA f : f._name = a)])]

\* setattr(instance, name, value): a Field stores under its _name (which is
\* the attribute it was reached by), any other name is a plain attribute.
setattr(d, name, value) ==
    [a \in DOMAIN d \cup {name} |-> IF a = name THEN value ELSE d[a]]

\* Model.__init__(**kwargs); kwargs is a sequence of <<name, value>>.
RECURSIVE Model_init_kwargs(_, _)
Model_init_kwargs(d, kwargs) ==
    IF kwargs = <<>> THEN d
    ELSE Model_init_kwargs(setattr(d, Head(kwargs)[1], Head(kwargs)[2]),
                           Tail(kwargs))

Model_init(cls, kwargs) == Model_init_kwargs(default_dict(cls), kwargs)

\* hasattr(instance, name): a Field of the class or an entry of __dict__.
\* (No column of the classes here is named after a method or class attribute.)
hasattr(cls, d, name) ==
    \/ \E i \in 1..Len(cls.fields) : cls.fields[i]._name = name
    \/ name \in DOMAIN d

\* getattr(instance, name) where hasattr holds: Field.__get__, else __dict__.
getattr(cls, d, name) ==
    IF name \in DOMAIN d THEN d[name]
    ELSE default_value(
             cls.fields[FirstIndex(cls.fields, LAMBDA f : f._name = name)])

\* Model.sql_values: the loop over self.fields from field i on.  Each turn
\* reads self.pk_field first, an attribute Model.__init__ sets only for a
\* class with a field flagged primary key.
RECURSIVE sql_values_from(_, _, _, _)
sql_values_from(cls, d, i, values_dict) ==
    IF i > Len(cls.fields) THEN [err |-> "ok", values |-> values_dict]
    ELSE IF pk_field(cls) = 0 THEN [err |-> "AttributeError", values |-> <<>>]
    ELSE LET field == cls.fields[i]
             value == getattr(cls, d, field._name)
         IN  sql_values_from(cls, d, i + 1,
                 IF i = pk_field(cls) THEN values_dict
                 ELSE IF value # None
                      THEN OrderedDict_set(values_dict, field.name, value)
                      ELSE values_dict)

\* sql_values keeping the fields whose value is None.
sql_values_sends_null(cls, d) ==
    LET keep == SelectSeq([i \in 1..Len(cls.fields) |-> i],
                          LAMBDA i : i # pk_field(cls))
    IN  [err |-> "ok",
         values |-> [k \in 1..Len(keep) |->
            [key |-> cls.fields[keep[k]].name,
             value |-> getattr(cls, d, cls.fields[keep[k]]._name)]]]

\* Model.sql_values: [err, values], values the OrderedDict returned when
\* err is "ok".
sql_values(cls, d) == sql_values_from(cls, d, 1, <<>>)

\* --------------------------------------------------------------- the driver
\* What the driver and the database do with what the code hands them: a
\* world w is [sess, db, committed, nextId].  outcome is the driver's verdict
\* on a well-formed statement: "ok", or "DriverError" for a failure the code
\* cannot foresee (a constraint violation, a lost connection).
Sent(sql, args) == [sql |-> sql, args |-> args]

Result(w, e, stmts) == [w |-> w, err |-> e, sent |-> stmts]

\* The row an INSERT creates: given columns take their argument, a serial
\* column the next sequence value, any other column its server default.
NewRow(cls, sql, args, id) ==
    [c \in {cls.fields[i].name : i \in 1..Len(cls.fields)} |->
        LET f == cls.fields[FirstIndex(cls.fields, LAMBDA g : g.name = c)]
            k == FirstIndex(sql.columns, LAMBDA x : x = c)
        IN  IF k # 0 THEN args[k]
            ELSE IF f.data_type = "serial" THEN ToString(id)
            ELSE f.server_default]

\* column = %s under SQL's rules: NULL equals nothing.
Matches(row, column, arg) == arg # None /\ row[column] = arg

\* The WHERE of a SELECT: fragments <<column reference, operator, "%s">>,
\* the i-th bound to args[i], all of which must hold (only = and != are
\* ever sent here).
Where(row, fragments, args) ==
    \A i \in 1..Len(fragments) :
        LET column == fragments[i][1][2] IN
        IF fragments[i][2] = "=" THEN Matches(row, column, args[i])
        ELSE args[i] # None /\ row[column] # None /\ row[column] # args[i]

\* cursor.execute(sql, args) on an open cursor.
cursor_execute(w, cls, sql, args, outcome) ==
    LET stmts == <<Sent(sql, args)>>
        NoResult(db2) ==
            [w EXCEPT !.db = db2,
                      !.sess = [@ EXCEPT !.has_result = FALSE, !.rows = <<>>]]
    IN
    IF outcome # "ok" THEN Result(w, outcome, stmts)
    ELSE IF sql.op = "INSERT" THEN
        IF sql.columns = <<>> THEN Result(w, "ProgrammingError", stmts)
        ELSE LET row == NewRow(cls, sql, args, w.nextId) IN
             Result([w EXCEPT !.db = Append(@, row),
                              !.nextId = @ + 1,
                              !.sess = [@ EXCEPT !.has_result = TRUE,
                                                 !.rows = << <<row[sql.returning]>> >>]],
                    "ok", stmts)
    ELSE IF sql.op = "UPDATE" THEN
        IF sql.columns = <<>> THEN Result(w, "ProgrammingError", stmts)
        ELSE Result(NoResult(
                 [i \in 1..Len(w.db) |->
                     IF Matches(w.db[i], sql.where, args[Len(args)])
                     THEN [c \in DOMAIN w.db[i] |->
                             LET k == FirstIndex(sql.columns, LAMBDA x : x = c)
                             IN  IF k # 0 THEN args[k] ELSE w.db[i][c]]
                     ELSE w.db[i]]),
                 "ok", stmts)
    ELSE IF sql.op = "DELETE" THEN
        Result(NoResult(SelectSeq(w.db, LAMBDA row :
                            ~Matches(row, sql.where, args[1]))),
               "ok", stmts)
    ELSE \* SELECT
        LET hit == SelectSeq(w.db, LAMBDA row : Where(row, sql.where, args))
        IN  Result([w EXCEPT !.sess = [@ EXCEPT !.has_result = TRUE,
                        !.rows = [i \in 1..Len(hit) |->
                                    [j \in 1..Len(sql.columns) |->
                                        hit[i][sql.columns[j]]]]]],
                   "ok", stmts)

\* What a call on the Session's cursor or connection raises before reaching
\* the database: the attribute is missing until connect() has run, and the
\* driver refuses a closed cursor or connection.
Unusable(s) ==
    IF s.conn = "absent" THEN "AttributeError"
    ELSE IF s.conn = "closed" THEN "InterfaceError"
    ELSE "ok"

\* ----------------------------------------------------------------- Session
\* What an operation leaves: the world, the instance's __dict__, how it
\* ended, what it sent and what it returned.
Ret(w, d, e, stmts, o) == [w |-> w, d |-> d, err |-> e, sent |-> stmts, out |-> o]

\* Session.__init__(bind) with the class attribute Session._bind as set by
\* Session.configure: self.bind = bind or self._bind, connect() if not None.
\* engine_connection is self.bind.connection, the last connection the engine
\* handed out: "absent" before Engine.connect has run, "own" when it is this
\* Session's connection, "other" when it is a later one.
Session_init(bind, _bind) ==
    LET b == IF bind # None THEN bind ELSE _bind
    IN  [bind |-> b, conn |-> IF b # None THEN "open" ELSE "absent",
         engine_connection |-> IF b # None THEN "own" ELSE "absent",
         has_result |-> FALSE, rows |-> <<>>]

\* Session.connect: a new connection (the old one, if any, is dropped with
\* its uncommitted work) and a new cursor.
Session_connect(w) ==
    IF w.sess.bind = None THEN Result(w, "AttributeError", <<>>)
    ELSE Result([w EXCEPT !.sess = [@ EXCEPT !.conn = "open",
                                            !.engine_connection = "own",
                                            !.has_result = FALSE, !.rows = <<>>],
                          !.db = w.committed],
                "ok", <<>>)

\* Session.close: cursor.close() and connection.close(); closing discards
\* the uncommitted work, closing twice is allowed by the driver.
Session_close(w) ==
    IF w.sess.conn = "absent" THEN Result(w, "AttributeError", <<>>)
    ELSE Result([w EXCEPT !.sess = [@ EXCEPT !.conn = "closed",
                                            !.has_result = FALSE, !.rows = <<>>],
                          !.db = w.committed],
                "ok", <<>>)

\* Engine.connect() on the Session's bind by anyone but this Session (the
\* application, another Session's connect, MetaData.create_all or drop_all):
\* the engine keeps the new connection in self.connection; the Session's own
\* connection and cursor are untouched.
Engine_connect(w) ==
    Result([w EXCEPT !.sess = [@ EXCEPT !.engine_connection = "other"]],
           "ok", <<>>)

\* Engine.close() on the Session's bind: self.connection.close().  When the
\* engine's connection is the one it handed to Session.connect, this closes
\* the Session's connection under it (the cursor is left alone, but the
\* driver refuses a cursor whose connection is closed) and the uncommitted
\* work is lost; when it is a later connection the Session is unaffected.
\* An engine that has never connected has no connection attribute.
Engine_close(w) ==
    IF w.sess.engine_connection = "absent"
    THEN Result(w, "AttributeError", <<>>)
    ELSE IF w.sess.engine_connection = "other" THEN Result(w, "ok", <<>>)
    ELSE Result([w EXCEPT !.sess = [@ EXCEPT !.conn = "closed",
                                            !.has_result = FALSE, !.rows = <<>>],
                          !.db = w.committed],
                "ok", <<>>)

\* Session.execute.
Session_execute(w, cls, sql, args, outcome) ==
    IF Unusable(w.sess) # "ok" THEN Result(w, Unusable(w.sess), <<>>)
    ELSE cursor_execute(w, cls, sql, args, outcome)

\* The first n rows of the cursor's result are handed out.
Fetch(w, n) ==
    IF Unusable(w.sess) # "ok" THEN Ret(w, <<>>, Unusable(w.sess), <<>>, <<>>)
    ELSE IF ~w.sess.has_result THEN Ret(w, <<>>, "ProgrammingError", <<>>, <<>>)
    ELSE LET k == IF n < Len(w.sess.rows) THEN n ELSE Len(w.sess.rows) IN
         Ret([w EXCEPT !.sess = [@ EXCEPT !.rows = SubSeq(@, k + 1, Len(@))]],
             <<>>, "ok", <<>>, SubSeq(w.sess.rows, 1, k))

\* Session.fetchone: out is <<row>>, or <<>> for None.
Session_fetchone(w) == Fetch(w, 1)

\* Session.fetchmany(size): size is <<>> for None (the cursor's arraysize,
\* which is 1) or <<n>>.
Session_fetchmany(w, size) == Fetch(w, IF size = <<>> THEN 1 ELSE size[1])

\* Session.fetchall.
Session_fetchall(w) == Fetch(w, Len(w.sess.rows))

\* Session.commit.
Session_commit(w) ==
    IF Unusable(w.sess) # "ok" THEN Result(w, Unusable(w.sess), <<>>)
    ELSE Result([w EXCEPT !.committed = w.db], "ok", <<>>)

\* Session.rollback.
Session_rollback(w) ==
    IF Unusable(w.sess) # "ok" THEN Result(w, Unusable(w.sess), <<>>)
    ELSE Result([w EXCEPT !.db = w.committed], "ok", <<>>)

\* Session.insert.
Session_insert(w, cls, d, outcome) ==
    IF pk_field(cls) = 0 THEN Ret(w, d, "AttributeError", <<>>, <<>>)
    ELSE
    LET pk  == cls.fields[pk_field(cls)]
        s   == sql_values(cls, d)
        sv  == s.values
        sql == [op |-> "INSERT", table |-> cls.table_name,
                columns |-> Keys(sv),
                values |-> [i \in 1..Len(sv) |-> "%s"],
                returning |-> pk.name]
        r   == Session_execute(w, cls, sql, Values(sv), outcome)
        f   == Session_fetchone(r.w)
    IN  IF s.err # "ok" THEN Ret(w, d, s.err, <<>>, <<>>)
        ELSE IF r.err # "ok" THEN Ret(r.w, d, r.err, r.sent, <<>>)
        ELSE IF f.err # "ok" THEN Ret(f.w, d, f.err, r.sent, <<>>)
        ELSE IF f.out = <<>> THEN Ret(f.w, d, "TypeError", r.sent, <<>>)
        ELSE Ret(f.w, setattr(d, pk._name, f.out[1][1]), "ok", r.sent, <<>>)

\* update going on without a primary-key field: an UPDATE with no WHERE.
Session_update_without_key(w, cls, d, outcome) ==
    LET sv  == SelectSeq([i \in 1..Len(cls.fields) |->
                             [key |-> cls.fields[i].name,
                              value |-> getattr(cls, d, cls.fields[i]._name)]],
                         LAMBDA e : e.value # None)
        sql == [op |-> "UPDATE", table |-> cls.table_name,
                columns |-> Keys(sv), where |-> None]
        r   == Session_execute(w, cls, sql, Values(sv) \o <<None>>, outcome)
    IN  Ret(r.w, d, r.err, r.sent, <<>>)

\* Session.update.
Session_update(w, cls, d, outcome) ==
    IF pk_field(cls) = 0 THEN Ret(w, d, "AttributeError", <<>>, <<>>)
    ELSE
    LET pk_name == cls.fields[pk_field(cls)].name IN
    IF ~hasattr(cls, d, pk_name) THEN Ret(w, d, "AttributeError", <<>>, <<>>)
    ELSE
    LET pk_value == getattr(cls, d, pk_name)
        s   == sql_values(cls, d)
        sv  == s.values
        sql == [op |-> "UPDATE", table |-> cls.table_name,
                columns |-> Keys(sv), where |-> pk_name]
        r   == Session_execute(w, cls, sql, Values(sv) \o <<pk_value>>, outcome)
    IN  IF s.err # "ok" THEN Ret(w, d, s.err, <<>>, <<>>)
        ELSE Ret(r.w, d, r.err, r.sent, <<>>)

\* delete clearing the primary-key attribute before it executes.
Session_delete_clears_first(w, cls, d, outcome) ==
    IF pk_field(cls) = 0 THEN Ret(w, d, "AttributeError", <<>>, <<>>)
    ELSE
    LET pk_name == cls.fields[pk_field(cls)].name IN
    IF ~hasattr(cls, d, pk_name) THEN Ret(w, d, "AttributeError", <<>>, <<>>)
    ELSE
    LET pk_value == getattr(cls, d, pk_name)
        sql == [op |-> "DELETE", table |-> cls.table_name, where |-> pk_name]
        r   == Session_execute(w, cls, sql, <<pk_value>>, outcome)
    IN  Ret(r.w, setattr(d, pk_name, None), r.err, r.sent, <<>>)

\* Session.delete.
Session_delete(w, cls, d, outcome) ==
    IF pk_field(cls) = 0 THEN Ret(w, d, "AttributeError", <<>>, <<>>)
    ELSE
    LET pk_name == cls.fields[pk_field(cls)].name IN
    IF ~hasattr(cls, d, pk_name) THEN Ret(w, d, "AttributeError", <<>>, <<>>)
    ELSE
    LET pk_value == getattr(cls, d, pk_name)
        sql == [op |-> "DELETE", table |-> cls.table_name, where |-> pk_name]
        r   == Session_execute(w, cls, sql, <<pk_value>>, outcome)
    IN  IF r.err # "ok" THEN Ret(r.w, d, r.err, r.sent, <<>>)
        ELSE Ret(r.w, setattr(d, pk_name, None), "ok", r.sent, <<>>)

\* ---------------------------------------------------------------- QuerySet
\* QuerySet.__init__: the attributes the object has.
QuerySet(session, cls, exps) == [session |-> session, model |-> cls, exps |-> exps]

\* QuerySet._build_sql: it reads self.models, an attribute no QuerySet has.
QuerySet_build_sql(qs) ==
    IF "models" \notin DOMAIN qs THEN [err |-> "AttributeError"]
    ELSE [err |-> "ok",
          sql |-> [op |-> "SELECT", table |-> qs.model.table_name,
                   columns |-> [i \in 1..Len(qs.models.fields) |->
                                   qs.models.fields[i].name],
                   where |-> [i \in 1..Len(qs.exps) |-> qs.exps[i][1]]],
          args |-> [i \in 1..Len(qs.exps) |-> qs.exps[i][2]]]

\* The instance QuerySet.__iter__ builds from one row.
RECURSIVE Hydrate(_, _, _, _)
Hydrate(cls, d, row, nu) ==
    IF nu > Len(row) THEN d
    ELSE Hydrate(cls, setattr(d, cls.fields[nu].name, row[nu]), row, nu + 1)

\* QuerySet.__iter__, run to exhaustion: out is the instances yielded.
QuerySet_iter(w, qs, outcome) ==
    LET b == QuerySet_build_sql(qs) IN
    IF b.err # "ok" THEN Ret(w, <<>>, b.err, <<>>, <<>>)
    ELSE
    LET r == Session_execute(w, qs.model, b.sql, b.args, outcome)
        f == Session_fetchall(r.w)
    IN  IF r.err # "ok" THEN Ret(r.w, <<>>, r.err, r.sent, <<>>)
        ELSE IF f.err # "ok" THEN Ret(f.w, <<>>, f.err, r.sent, <<>>)
        ELSE Ret(f.w, <<>>, "ok", r.sent,
                 [i \in 1..Len(f.out) |->
                     Hydrate(qs.model, Model_init(qs.model, <<>>), f.out[i], 1)])

\* ------------------------------------------------- the Session specification
\* Values the application assigns to an instance's fields.
AssignValues == {None, "1"}

\* The driver's verdicts on a statement.
Outcomes == {"ok", "DriverError"}

\* Attributes of the fields other than the primary-key field.
NonKeyAttrs(cls) ==
    {cls.fields[i]._name : i \in (1..Len(cls.fields)) \ {pk_field(cls)}}

\* The classes by table name, as the class statements leave them.
SessionClasses ==
    [t \in {_get_table_name(attr_dict) : attr_dict \in SessionDecls} |->
        ModelClass(CHOOSE attr_dict \in SessionDecls :
                       _get_table_name(attr_dict) = t)]

\* The class of the instance.
Cls == SessionClasses[model]

World == [sess |-> sess, db |-> db, committed |-> committed, nextId |-> nextId]

\* The state an operation named op leaves, from what it returned.
Apply(op, r, d, o) ==
    /\ sess' = r.w.sess
    /\ db' = r.w.db
    /\ committed' = r.w.committed
    /\ nextId' = r.w.nextId
    /\ inst' = d
    /\ sent' = r.sent
    /\ out' = o
    /\ err' = r.err
    /\ last' = op
    /\ UNCHANGED <<model, meta_vars, expr>>

\* An instance of one of the classes, built with or without a keyword
\* argument, and a Session built with or without a bind.
SessInit ==
    /\ MetaIdle /\ ExprIdle
    /\ model \in DOMAIN SessionClasses
    /\ \E kwargs \in {<<>>} \cup {<< <<a, "1">> >> : a \in NonKeyAttrs(Cls)} :
            inst = Model_init(Cls, kwargs)
    /\ \E bind \in {None, "engine"}, _bind \in {None, "engine"} :
            sess = Session_init(bind, _bind)
    /\ db = <<>>
    /\ committed = <<>>
    /\ nextId = 1
    /\ sent = <<>>
    /\ out = <<>>
    /\ last = "init"
    /\ err = "ok"

\* instance.attr = value, for a field other than the primary key.
SetAttr ==
    \E a \in NonKeyAttrs(Cls), v \in AssignValues :
        /\ inst' = setattr(inst, a, v)
        /\ sent' = <<>>
        /\ out' = <<>>
        /\ err' = "ok"
        /\ last' = "setattr"
        /\ UNCHANGED <<sess, db, committed, nextId, model, meta_vars, expr>>

Connect == LET r == Session_connect(World) IN Apply("connect", r, inst, <<>>)

Close == LET r == Session_close(World) IN Apply("close", r, inst, <<>>)

\* The engine the Session is bound to hands out another connection.
EngineConnect ==
    /\ sess.bind # None
    /\ LET r == Engine_connect(World) IN Apply("engine_connect", r, inst, <<>>)

\* The application closes the engine the Session is bound to.
EngineClose ==
    /\ sess.bind # None
    /\ LET r == Engine_close(World) IN Apply("engine_close", r, inst, <<>>)

Commit == LET r == Session_commit(World) IN Apply("commit", r, inst, <<>>)

Rollback == LET r == Session_rollback(World) IN Apply("rollback", r, inst, <<>>)

\* session.execute of a hand-written SELECT of every column: of all rows,
\* or of the row whose primary key is the one the instance holds.
RawExecute ==
    /\ pk_field(Cls) # 0
    /\ LET pk == Cls.fields[pk_field(Cls)] IN
       \E outcome \in Outcomes, p \in {<<>>, <<inst[pk._name]>>} :
        LET sql == [op |-> "SELECT", table |-> Cls.table_name,
                    columns |-> [i \in 1..Len(Cls.fields) |-> Cls.fields[i].name],
                    where |-> IF p = <<>> THEN <<>>
                              ELSE << <<pk.sql_column, "=", "%s">> >>]
            r   == Session_execute(World, Cls, sql, p, outcome)
        IN  Apply("execute", r, inst, <<>>)

Fetchone == LET r == Session_fetchone(World) IN Apply("fetchone", r, inst, r.out)

Fetchmany ==
    \E size \in {<<>>, <<2>>} :
        LET r == Session_fetchmany(World, size) IN Apply("fetchmany", r, inst, r.out)

Fetchall == LET r == Session_fetchall(World) IN Apply("fetchall", r, inst, r.out)

\* The sequence hands out at most MaxRows values.
Insert ==
    /\ nextId <= MaxRows
    /\ \E outcome \in Outcomes :
        LET r == Session_insert(World, Cls, inst, outcome)
        IN  Apply("insert", r, r.d, <<>>)

Update ==
    \E outcome \in Outcomes :
        LET r == Session_update(World, Cls, inst, outcome)
        IN  Apply("update", r, r.d, <<>>)

Delete ==
    \E outcome \in Outcomes :
        LET r == Session_delete(World, Cls, inst, outcome)
        IN  Apply("delete", r, r.d, <<>>)

\* for instance in QuerySet(session, model): ...
Iterate ==
    \E outcome \in Outcomes :
        LET r == QuerySet_iter(World, QuerySet("session", Cls, <<>>), outcome)
        IN  Apply("iter", r, inst, r.out)

Next ==
    \/ SetAttr \/ Connect \/ Close \/ EngineConnect \/ EngineClose
    \/ Commit \/ Rollback
    \/ RawExecute \/ Fetchone \/ Fetchmany \/ Fetchall
    \/ Insert \/ Update \/ Delete \/ Iterate

Spec == SessInit /\ [][Next]_vars

\* ------------------------------------------------ Field comparison builders
\* str.format(self) of a template holding one replacement field followed by
\* text: ref is [key, attr].  '{.attr}' has an empty key and reads attr from
\* the next positional argument; '{key}' looks key up among the keyword
\* arguments, and none is ever passed.
str_format(ref, rest, self, kwargs) ==
    IF ref.key = ""
    THEN [err |-> "ok", text |-> <<self[ref.attr]>> \o rest]
    ELSE IF ref.key \in DOMAIN kwargs
         THEN [err |-> "ok", text |-> <<kwargs[ref.key]>> \o rest]
         ELSE [err |-> "KeyError"]

\* return <formatted>, value
Pair(f, value) ==
    IF f.err # "ok" THEN [err |-> f.err, result |-> <<>>]
    ELSE [err |-> "ok", result |-> <<f.text, value>>]

\* Field.__lt__: '{.sql_column} < %s'
Field_lt(self, value) ==
    Pair(str_format([key |-> "", attr |-> "sql_column"], <<"<", "%s">>, self, <<>>), value)

\* Field.__eq__: '{sql_column} = %s'
Field_eq(self, value) ==
    Pair(str_format([key |-> "sql_column", attr |-> ""], <<"=", "%s">>, self, <<>>), value)

\* Field.__ne__: '{.sql_column} != %s'
Field_ne(self, value) ==
    Pair(str_format([key |-> "", attr |-> "sql_column"], <<"!=", "%s">>, self, <<>>), value)

\* Field.__gt__: '{.sql_column} > %s'
Field_gt(self, value) ==
    Pair(str_format([key |-> "", attr |-> "sql_column"], <<">", "%s">>, self, <<>>), value)

\* Field.like: '{.sql_column} LIKE %s'
Field_like(self, value) ==
    Pair(str_format([key |-> "", attr |-> "sql_column"], <<"LIKE", "%s">>, self, <<>>), value)

\* Field.desc: '{.sql_column} DESC', a string alone.
Field_desc(self) ==
    LET f == str_format([key |-> "", attr |-> "sql_column"], <<"DESC">>, self, <<>>)
    IN  IF f.err # "ok" THEN [err |-> f.err, result |-> <<>>]
        ELSE [err |-> "ok", result |-> f.text]

\* The fields attached to a registered Cls.
AttachedFields ==
    UNION {SeqToSet(ModelClass(attr_dict).fields) :
              attr_dict \in {a \in Decls : _get_table_name(a) # None}}

\* Values compared against.
CompareValues == {None, "1", "a%"}

ExprInit ==
    /\ MetaIdle /\ SessIdle
    /\ expr = <<>>
    /\ last = "init"
    /\ err = "ok"

\* The outcome r of builder op on field with value becomes the state.
Built(op, field, value, r) ==
    /\ expr' = [field |-> field, value |-> value, result |-> r.result]
    /\ err' = r.err
    /\ last' = op
    /\ UNCHANGED <<meta_vars, sess_vars>>

Compare ==
    \E field \in AttachedFields, value \in CompareValues :
        \/ Built("<", field, value, Field_lt(field, value))
        \/ Built("=", field, value, Field_eq(field, value))
        \/ Built("!=", field, value, Field_ne(field, value))
        \/ Built(">", field, value, Field_gt(field, value))
        \/ Built("like", field, value, Field_like(field, value))

Desc ==
    \E field \in AttachedFields :
        Built("desc", field, None, Field_desc(field))

ExprNext == Compare \/ Desc

SpecExpr == ExprInit /\ [][ExprNext]_vars

\* =================================================================== claims
\* ------------------------------------------------------ registry (SpecMeta)
IsExecute(c, op) == c.call = "execute" /\ c.sql.op = op

\* The positions of calls cs at which the call is named name.
CallsNamed(cs, name) == {i \in 1..Len(cs) : cs[i].call = name}

\* C6 as stated: every create_all run that returns has executed one CREATE
\* TABLE per registered model, in registration order, and then exactly one
\* batched index statement, which is empty when no index is registered;
\* it commits once, after the last statement, and closes after the commit.
C6_AlwaysOneBatch ==
    (last = "create_all" /\ err = "ok") =>
        LET n == Len(tables)
            ex == CallsNamed(calls, "execute")
        IN  /\ Cardinality(ex) = n + 1
            /\ \A i \in 1..n :
                   /\ IsExecute(calls[2 + i], "CREATE TABLE")
                   /\ calls[2 + i].sql.table = tables[i].key
            /\ IsExecute(calls[n + 3], "BATCH")
            /\ Len(calls[n + 3].sql.statements) = Len(indexes)
            /\ CallsNamed(calls, "commit") = {n + 4}
            /\ CallsNamed(calls, "connection.close") = {Len(calls)}

\* C6 (amended): every create_all run that returns has executed one CREATE
\* TABLE per registered model, in registration order, and then, only when
\* at least one index is registered, one batch holding every registered
\* index statement (no statement at all when none is registered); it
\* commits exactly once, after the last statement, and closes the
\* connection only after the commit.
C6_CreateAllOrder ==
    (last = "create_all" /\ err = "ok") =>
        LET n == Len(tables)
            b == IF indexes = <<>> THEN 0 ELSE 1
            ex == CallsNamed(calls, "execute")
        IN  /\ ex = 3..(n + b + 2)
            /\ \A i \in 1..n :
                   /\ IsExecute(calls[2 + i], "CREATE TABLE")
                   /\ calls[2 + i].sql.table = tables[i].key
                   /\ calls[2 + i].sql.table = tables[i].value.table_name
            /\ b = 1 =>
                   /\ IsExecute(calls[n + 3], "BATCH")
                   /\ Len(calls[n + 3].sql.statements) = Len(indexes)
                   /\ \A j \in 1..Len(indexes) :
                          calls[n + 3].sql.statements[j].name = indexes[j].name
            /\ CallsNamed(calls, "commit") = {n + b + 3}
            /\ CallsNamed(calls, "connection.close") = {n + b + 5}
            /\ Len(calls) = n + b + 5

\* C6 witness: create_all has returned with two tables and an index registered.
C6_Witness ==
    /\ last = "create_all" /\ err = "ok"
    /\ Len(tables) >= 2 /\ indexes # <<>>
    /\ Len(calls) = Len(tables) + 6

\* A field that _collect_indexes is meant to index.
PlainIndexed(f) == f.index /\ ~f.unique /\ ~f.primary_key /\ ~HasForeignKey(f)

\* C7: for every registered table t and every field c of its model marked
\* index=True and not unique, primary key or foreign-keyed, MetaData.indexes
\* holds exactly one Index named index_t_c on (t, c); and it holds no Index
\* for any other field.
C7_OneIndexPerField ==
    /\ \A i \in 1..Len(tables) :
         LET t == tables[i].key
             fields == tables[i].value.fields
         IN  \A k \in 1..Len(fields) :
                 PlainIndexed(fields[k]) =>
                     Cardinality({j \in 1..Len(indexes) :
                         /\ indexes[j].name = IndexName(t, fields[k].name)
                         /\ indexes[j].table_name = t
                         /\ indexes[j].column_name = fields[k].name}) = 1
    /\ \A j \in 1..Len(indexes) :
         \E i \in 1..Len(tables) :
             /\ tables[i].key = indexes[j].table_name
             /\ \E k \in 1..Len(tables[i].value.fields) :
                    /\ PlainIndexed(tables[i].value.fields[k])
                    /\ tables[i].value.fields[k].name = indexes[j].column_name

\* C10: when create_all or drop_all ends, normally or by a driver error
\* raised by an execute or by the commit, the connection it opened is closed.
C10_ConnectionClosed ==
    (/\ last \in {"create_all", "drop_all"}
     /\ err # "ok" => calls[Len(calls)].call \in {"execute", "commit"})
        => ~ConnectionOpen(calls, err)

\* ------------------------------------------------------------ Session (Spec)
\* The instance's primary-key field, for a class that has one.
PkField == Cls.fields[pk_field(Cls)]

\* The fields other than the instance's primary-key field, in declaration
\* order, whose current value is not None.
NonNullFields ==
    SelectSeq(Cls.fields, LAMBDA f :
        f._name # PkField._name /\ inst[f._name] # None)

\* C1: on a connected Session, insert of an instance that has a primary-key
\* field hands the driver exactly one statement, an INSERT whose column list
\* is the non-primary-key fields with a non-null current value, in
\* declaration order, with the bound arguments in the same order and no
\* null among them; and when it returns, the primary-key attribute holds the
\* value the database returned for the new row.
C1_InsertStatement ==
    (last = "insert" /\ pk_field(Cls) # 0 /\ sess.conn = "open") =>
        /\ Len(sent) = 1
        /\ sent[1].sql.op = "INSERT"
        /\ sent[1].sql.table = Cls.table_name
        /\ sent[1].sql.returning = PkField.name
        /\ sent[1].sql.columns =
               [i \in 1..Len(NonNullFields) |-> NonNullFields[i].name]
        /\ sent[1].args =
               [i \in 1..Len(NonNullFields) |-> inst[NonNullFields[i]._name]]
        /\ Len(sent[1].sql.values) = Len(sent[1].args)
        /\ None \notin SeqToSet(sent[1].args)
        /\ err = "ok" =>
               /\ db # <<>>
               /\ inst[PkField._name] = db[Len(db)][PkField.name]
               /\ inst[PkField._name] = ToString(nextId - 1)

\* C1 witness: an insert has returned for an instance one of whose two
\* non-key fields is null, so one column was sent and one left out.
C1_Witness ==
    /\ last = "insert" /\ err = "ok" /\ sess.conn = "open"
    /\ pk_field(Cls) # 0
    /\ Len(Cls.fields) = 3
    /\ Len(sent[1].sql.columns) = 1
    /\ inst[PkField._name] = "2"

\* The instance's primary-key attribute names a row the Session sees.
Persisted ==
    /\ pk_field(Cls) # 0
    /\ inst[PkField._name] # None
    /\ \E i \in 1..Len(db) : db[i][PkField.name] = inst[PkField._name]

\* C2: an update of a persisted instance on a connected Session that the
\* driver does not refuse succeeds; its SET list leaves out the primary-key
\* column; the row selected by the instance's primary-key value then shows
\* the current value of every non-key field; and no row with another
\* primary key is changed.
C2_UpdateRoundTrip ==
    [][(last' = "update" /\ sess.conn = "open" /\ Persisted
        /\ err' # "DriverError") =>
          /\ err' = "ok"
          /\ Len(sent') = 1
          /\ PkField.name \notin SeqToSet(sent'[1].sql.columns)
          /\ Len(db') = Len(db)
          /\ \A i \in 1..Len(db) :
                IF db[i][PkField.name] = inst[PkField._name]
                THEN \A k \in (1..Len(Cls.fields)) \ {pk_field(Cls)} :
                        db'[i][Cls.fields[k].name] = inst[Cls.fields[k]._name]
                ELSE db'[i] = db[i]]_vars

\* C3: a delete of a persisted instance on a connected Session that the
\* driver does not refuse executes one DELETE whose only bound argument is
\* the instance's primary-key value, whether the key's column name was
\* inferred or given; afterwards the primary-key attribute reads None and
\* no row with that key is left.
C3_DeleteClearsKey ==
    [][(last' = "delete" /\ sess.conn = "open" /\ Persisted
        /\ err' # "DriverError") =>
          /\ err' = "ok"
          /\ Len(sent') = 1
          /\ sent'[1].sql.op = "DELETE"
          /\ sent'[1].args = <<inst[PkField._name]>>
          /\ inst'[PkField._name] = None
          /\ ~\E i \in 1..Len(db') :
                 db'[i][PkField.name] = inst[PkField._name]]_vars

\* The operations that need a connected Session.
NeedConnection ==
    {"execute", "fetchone", "fetchmany", "fetchall", "commit", "rollback",
     "insert", "update", "delete"}

\* C4: a Session is connected after a successful connect and disconnected
\* after a successful close; while it is not connected (never connected, or
\* closed), every operation other than connect and close ends with an
\* error, hands the driver no statement, and leaves the instance, the
\* Session and the database as they were.
C4_DisconnectedFailsFast ==
    [][/\ (last' = "connect" /\ err' = "ok") => sess'.conn = "open"
       /\ (last' = "close" /\ err' = "ok") => sess'.conn = "closed"
       /\ (sess.conn # "open" /\ last' \in NeedConnection) =>
             /\ err' # "ok"
             /\ sent' = <<>>
             /\ inst' = inst
             /\ sess' = sess
             /\ db' = db /\ committed' = committed /\ nextId' = nextId]_vars

\* C4 witness: a delete of a persisted-then-closed instance has failed on
\* the closed Session and the instance still holds its key.
C4_Witness ==
    /\ sess.conn = "closed"
    /\ last = "delete" /\ err = "InterfaceError"
    /\ pk_field(Cls) # 0 /\ inst[PkField._name] # None
    /\ sent = <<>>

\* The operations that write a row.
Writes == {"insert", "update", "delete"}

\* C5 as stated: for a class with no field flagged primary key, every
\* write fails with MissingPrimaryKeyError and executes no statement.
C5_MissingPrimaryKeyError ==
    (pk_field(Cls) = 0 /\ last \in Writes) =>
        (err = "MissingPrimaryKeyError" /\ sent = <<>>)

\* C5 (amended): for a class with no field flagged primary key, every write
\* fails with AttributeError (the instance has no pk_field attribute) and
\* executes no statement; none succeeds.
C5_NoPrimaryKeyFails ==
    (pk_field(Cls) = 0 /\ last \in Writes) =>
        (err = "AttributeError" /\ sent = <<>> /\ db = <<>>)

\* C5 witness: an update of an instance without primary key has failed on a
\* connected Session.
C5_Witness ==
    /\ pk_field(Cls) = 0
    /\ last = "update" /\ err = "AttributeError"
    /\ sess.conn = "open"

\* C8: iterating a QuerySet over a connected Session executes one SELECT on
\* the model's table and yields one instance per row of the result, in
\* result order, the i-th column in the i-th declared field.
C8_IterateYieldsRows ==
    (last = "iter" /\ sess.conn = "open" /\ err # "DriverError") =>
        /\ err = "ok"
        /\ Len(sent) = 1
        /\ sent[1].sql.op = "SELECT"
        /\ sent[1].sql.table = Cls.table_name
        /\ Len(out) = Len(db)
        /\ \A i \in 1..Len(out) : \A k \in 1..Len(Cls.fields) :
               out[i][Cls.fields[k]._name] = db[i][Cls.fields[k].name]

\* ------------------------------------------ comparison builders (SpecExpr)
\* The operator each comparison builder writes.
Operator(op) == IF op = "like" THEN "LIKE" ELSE op

\* C9: every builder returns without raising; <, =, !=, > and like return
\* the pair of the fragment <column reference, operator, one placeholder>
\* and the value given; desc returns the fragment <column reference, DESC>
\* alone.
C9_BuildersReturnPairs ==
    last # "init" =>
        /\ err = "ok"
        /\ last = "desc" => expr.result = <<expr.field.sql_column, "DESC">>
        /\ last # "desc" =>
               /\ Len(expr.result) = 2
               /\ expr.result[1] =
                      <<expr.field.sql_column, Operator(last), "%s">>
               /\ expr.result[2] = expr.value

====
